---- MODULE Spec2Model ----
(***************************************************************************)
(* CloudFront facts (cloudfront_facts.py): the paginated listings of       *)
(* CloudFrontServiceManager, the keyed index built by keyed_list_helper,   *)
(* the summary, the reverse lookup of a distribution id by alias and main; *)
(* launch configurations (ec2_lc.py): create_launch_config and             *)
(* delete_launch_config.                                                   *)
(*                                                                         *)
(* The program is single-threaded and blocks in every provider call, so a  *)
(* state is the program blocked in the func call of paginated_response and *)
(* an action is the provider's answer to that call (a page or an           *)
(* exception) followed by all the code that runs up to the next provider   *)
(* call or to the exit of the module.                                      *)
(*                                                                         *)
(* Python values: a str is a sequence of one-character strings, a list is  *)
(* PyList(seq), a dict is PyDict(function), None is the value None.        *)
(* Continuation tokens are opaque and are TLA+ strings.                    *)
(***************************************************************************)
EXTENDS Integers, Sequences, FiniteSets, TLC

\* ---------------------------------------------------------------- bounds

\* The provider answers at most MaxPages fetches of one listing: the
\* MaxPages-th page carries no continuation token.
MaxPages == 2

\* The longest collection handed to keyed_list_helper in SpecKeyer.
MaxRecords == 2

\* The most option flags one invocation of main sets to true.
MaxFlags == 1

\* The longest list of volumes handed to ec2_lc.
MaxVolumes == 2

\* ---------------------------------------------------------- python values

None == "<None>"

EmptyDict == [k \in {} |-> None]

PyList(s) == [type |-> "list", val |-> s]

PyDict(f) == [type |-> "dict", val |-> f]

PyNone == [type |-> "none", val |-> <<>>]

PyStr(str) == [type |-> "str", val |-> str]

\* The truth value of a str or None: None and the empty str are false.
Truthy(v) == v.type = "str" /\ v.val /= <<>>

\* d.get(k): None when the key is absent.
Get(d, k) == IF k \in DOMAIN d THEN d[k] ELSE None

\* d.update(e): the keys of e overwrite those of d.
Update(d, e) == [k \in (DOMAIN d) \cup (DOMAIN e) |-> IF k \in DOMAIN e THEN e[k] ELSE d[k]]

\* d.pop(k, None), for its effect on d.
Pop(d, k) == [x \in (DOMAIN d) \ {k} |-> d[x]]

\* The elements a for loop visits: the items of a list, the keys of a dict
\* (the only dict a listing returns is the empty one).
Iter(v) == IF v.type = "list" THEN v.val ELSE <<>>

\* ------------------------------------------------------------ the provider

\* ids and aliases, as character sequences
D1 == <<"D", "1">>
D2 == <<"D", "2">>
D3 == <<"D", "3">>
S1 == <<"S", "1">>
O1 == <<"O", "1">>
O2 == <<"O", "2">>
I1 == <<"I", "1">>
I2 == <<"I", "2">>
aCom == <<"a", ".", "c">>
WwwB == <<"W", "w", ".", "B">>
eOrg == <<"e", ".", "o">>

\* 'Aliases' of a distribution: 'Items' is absent when there are none.
AliasesOf(s) ==
    IF s = <<>> THEN [Quantity |-> 0] ELSE [Quantity |-> Len(s), Items |-> s]

\* A distribution record; 'Status' stands for the fields the summary copies
\* verbatim (ARN, Status, LastModifiedTime, DomainName, Comment, PriceClass,
\* Enabled).
Dist(id, aliases) ==
    [Id |-> id, Status |-> "Deployed", WebACLId |-> "", Aliases |-> AliasesOf(aliases)]

\* A streaming distribution record: it has no 'WebACLId'.
StreamDist(id, aliases) ==
    [Id |-> id, Status |-> "Deployed", Aliases |-> AliasesOf(aliases)]

Ident(id) == [Id |-> id]

Categories ==
    {"distributions", "streaming_distributions", "origin_access_identities", "invalidations"}

\* The single resources main gets: the key of a get_* response that holds
\* the resource.
GetKey ==
    [distribution                  |-> "Distribution",
     distribution_config           |-> "DistributionConfig",
     origin_access_identity        |-> "CloudFrontOriginAccessIdentity",
     origin_access_identity_config |-> "CloudFrontOriginAccessIdentityConfig",
     invalidation                  |-> "Invalidation",
     streaming_distribution        |-> "StreamingDistribution",
     streaming_distribution_config |-> "StreamingDistributionConfig"]

GetCategories == DOMAIN GetKey

\* The responses of a get_* call: the resource in one of two states, the
\* 'ETag' of its current version and the metadata of the response.
GetResponses(cat) ==
    {(GetKey[cat] :> [Status |-> st]) @@ [ETag |-> "E1", ResponseMetadata |-> "meta"] :
        st \in {"Deployed", "InProgress"}}

\* The item lists one page of a category may hold; for a get_* call, the
\* responses.
PageItems(cat) ==
    CASE cat \in GetCategories -> GetResponses(cat)
      [] cat = "distributions_by_web_acl_id" ->
           {<<>>, <<Dist(D1, <<aCom>>), Dist(D2, <<>>)>>}
      [] cat = "distributions" ->
           {<<>>, <<Dist(D1, <<aCom>>), Dist(D2, <<>>)>>, <<Dist(D3, <<WwwB>>)>>}
      [] cat = "streaming_distributions" ->
           {<<>>, <<StreamDist(S1, <<eOrg>>)>>}
      [] cat = "origin_access_identities" ->
           {<<>>, <<Ident(O1)>>, <<Ident(O2)>>}
      [] cat = "invalidations" ->
           {<<>>, <<Ident(I1), Ident(I2)>>}

\* The list structure of a page: 'Items' is absent when 'Quantity' is 0.
ListOf(items) ==
    IF items = <<>> THEN [Quantity |-> 0] ELSE [Quantity |-> Len(items), Items |-> items]

Tokens == {None, "", "tok"}

\* The key of the list structure in a response, per category.
ResultKey(cat) ==
    CASE cat \in GetCategories -> ""
      [] cat = "distributions_by_web_acl_id" -> "DistributionList"
      [] cat = "distributions" -> "DistributionList"
      [] cat = "streaming_distributions" -> "StreamingDistributionList"
      [] cat = "origin_access_identities" -> "CloudFrontOriginAccessIdentityList"
      [] cat = "invalidations" -> "InvalidationList"

\* A response of the provider: the list structure under the category's key
\* (for a get_* call, the response itself) and, unless the token is None, a
\* 'NextToken'.
Response(cat, items, tok) ==
    LET body == IF cat \in GetCategories THEN items ELSE (ResultKey(cat) :> ListOf(items))
    IN  IF tok = None THEN body ELSE body @@ ("NextToken" :> tok)

\* --------------------------------------------------- paginated_response

\* result of the loop body: the response without its metadata when no
\* result_key is given, else what the response holds under result_key.
PageResult(response, result_key) ==
    IF result_key = "" THEN Pop(response, "ResponseMetadata") ELSE Get(response, result_key)

\* PageStep with the empty string, not None, as the end-of-pages sentinel.
PageStepEmptySentinel(results, response, result_key) ==
    [results |-> Update(results, PageResult(response, result_key)),
     args    |-> [NextToken |-> Get(response, "NextToken")],
     loop    |-> Get(response, "NextToken") /= ""]

\* PageStep with both None and the empty string ending the loop.
PageStepFalsyToken(results, response, result_key) ==
    [results |-> Update(results, PageResult(response, result_key)),
     args    |-> [NextToken |-> Get(response, "NextToken")],
     loop    |-> Get(response, "NextToken") \notin {None, ""}]

\* One iteration of the while loop, on the response of func: the new
\* results, the new args and the loop flag.
PageStep(results, response, result_key) ==
    [results |-> Update(results, PageResult(response, result_key)),
     args    |-> [NextToken |-> Get(response, "NextToken")],
     loop    |-> Get(response, "NextToken") /= None]

\* The results of the whole loop on the responses func gave, in order.
RECURSIVE PaginatedFrom(_, _, _)
PaginatedFrom(results, responses, result_key) ==
    IF responses = <<>> THEN results
    ELSE PaginatedFrom(PageStep(results, Head(responses), result_key).results,
                       Tail(responses), result_key)

paginated_response(responses, result_key) == PaginatedFrom(EmptyDict, responses, result_key)

\* ------------------------------------------------------- keyed_list_helper

\* KeyItem that keeps the first record registered under a key.
KeyItemFirstWins(keyed_list, item) ==
    LET aliases == IF "Items" \in DOMAIN item.Aliases THEN item.Aliases.Items ELSE <<>>
        F[i \in 0..Len(aliases)] ==
            IF i = 0 THEN keyed_list ELSE Update(aliases[i] :> item, F[i - 1])
    IN  Update(item.Id :> item, F[Len(aliases)])

\* KeyItem that registers the aliases and not the id.
KeyItemAliasesOnly(keyed_list, item) ==
    LET aliases == IF "Items" \in DOMAIN item.Aliases THEN item.Aliases.Items ELSE <<>>
        F[i \in 0..Len(aliases)] ==
            IF i = 0 THEN keyed_list ELSE Update(F[i - 1], aliases[i] :> item)
    IN  F[Len(aliases)]

\* KeyItem with the registration of the id inside the if on 'Items'.
KeyItemIdInsideIf(keyed_list, item) ==
    LET aliases == IF "Items" \in DOMAIN item.Aliases THEN item.Aliases.Items ELSE <<>>
        F[i \in 0..Len(aliases)] ==
            IF i = 0 THEN keyed_list ELSE Update(F[i - 1], aliases[i] :> item)
    IN  IF "Items" \in DOMAIN item.Aliases
        THEN Update(F[Len(aliases)], item.Id :> item)
        ELSE keyed_list

\* The body of the for loop (lines 456-461): the aliases of the item when
\* its 'Aliases' holds 'Items', then its id. Line 458 stands one level left
\* of where the for of line 459 needs it; the statements are taken in their
\* order with the nesting that for requires.
KeyItem(keyed_list, item) ==
    LET aliases == IF "Items" \in DOMAIN item.Aliases THEN item.Aliases.Items ELSE <<>>
        F[i \in 0..Len(aliases)] ==
            IF i = 0 THEN keyed_list ELSE Update(F[i - 1], aliases[i] :> item)
    IN  Update(F[Len(aliases)], item.Id :> item)

RECURSIVE KeyedFrom(_, _, _)
KeyedFrom(keyed_list, list_to_key, i) ==
    IF i > Len(list_to_key) THEN keyed_list
    ELSE KeyedFrom(KeyItem(keyed_list, list_to_key[i]), list_to_key, i + 1)

keyed_list_helper(list_to_key) == PyDict(KeyedFrom(EmptyDict, list_to_key, 1))

\* ------------------------------------------------------------- listings

\* What each list_* method returns from the results of paginated_response.
list_distributions(distribution_list, keyed) ==
    IF distribution_list["Quantity"] = 0 THEN PyDict(EmptyDict)
    ELSE IF ~keyed THEN PyList(distribution_list["Items"])
    ELSE keyed_list_helper(distribution_list["Items"])

list_streaming_distributions(streaming_distribution_list, keyed) ==
    IF streaming_distribution_list["Quantity"] = 0 THEN PyDict(EmptyDict)
    ELSE IF ~keyed THEN PyList(streaming_distribution_list["Items"])
    ELSE keyed_list_helper(streaming_distribution_list["Items"])

list_distributions_by_web_acl_id(distribution_list) ==
    IF distribution_list["Quantity"] = 0 THEN PyDict(EmptyDict)
    ELSE keyed_list_helper(distribution_list["Items"])

list_invalidations(invalidation_list) ==
    IF invalidation_list["Quantity"] > 0 THEN PyList(invalidation_list["Items"])
    ELSE PyDict(EmptyDict)

list_origin_access_identities(origin_access_identity_list) ==
    IF origin_access_identity_list["Quantity"] > 0
    THEN PyList(origin_access_identity_list["Items"])
    ELSE PyDict(EmptyDict)

\* The unkeyed listing of a category, as summary and the lookup call it.
ListReturn(cat, results) ==
    CASE cat = "distributions" -> list_distributions(results, FALSE)
      [] cat = "streaming_distributions" -> list_streaming_distributions(results, FALSE)
      [] cat = "origin_access_identities" -> list_origin_access_identities(results)
      [] cat = "invalidations" -> list_invalidations(results)

\* The message of the fail_json of each list_* and get_* method.
ListError(cat) ==
    CASE cat = "distribution" -> "Error describing distribution - "
      [] cat = "distribution_config" -> "Error describing distribution configuration - "
      [] cat = "origin_access_identity" -> "Error describing origin access identity - "
      [] cat = "origin_access_identity_config" ->
           "Error describing origin access identity configuration - "
      [] cat = "invalidation" -> "Error describing invalidation - "
      [] cat \in {"streaming_distribution", "streaming_distribution_config"} ->
           "Error describing streaming distribution - "
      [] cat = "distributions_by_web_acl_id" -> "Error listing distributions by web acl id - "
      [] cat = "distributions" -> "Error listing distributions - "
      [] cat = "streaming_distributions" -> "Error listing streaming distributions - "
      [] cat = "origin_access_identities" -> "Error listing cloud front origin access identities - "
      [] cat = "invalidations" -> "Error listing invalidations - "

\* ---------------------------------------------------------------- summary

\* The aliases copied into a summary entry (lines 380-384).
AliasList(dist) ==
    IF "Items" \in DOMAIN dist.Aliases THEN dist.Aliases.Items ELSE <<>>

\* temp_distribution before the invalidations are attached.
temp_distribution(dist, streaming) ==
    LET base == [Id |-> dist.Id, Status |-> dist.Status, Aliases |-> AliasList(dist)]
    IN  IF streaming THEN base ELSE Update(base, [WebACLId |-> dist.WebACLId])

\* distribution_entry that attaches the invalidation ids when empty too.
distribution_entry_always(dist, invalidation_ids) ==
    Update(temp_distribution(dist, FALSE), [Invalidations |-> invalidation_ids.val])

\* The entry of a regular distribution once its invalidation ids are known.
distribution_entry(dist, invalidation_ids) ==
    IF invalidation_ids.val /= <<>>
    THEN Update(temp_distribution(dist, FALSE), [Invalidations |-> invalidation_ids.val])
    ELSE temp_distribution(dist, FALSE)

\* The ids of a listing of invalidations, in the order of the listing.
get_list_of_invalidation_ids_from_distribution_id(invalidations) ==
    PyList([i \in 1..Len(Iter(invalidations)) |-> Iter(invalidations)[i].Id])

\* The entries of the streaming distributions: no invalidations are fetched.
streaming_entries(distributions) ==
    [i \in 1..Len(Iter(distributions)) |-> temp_distribution(Iter(distributions)[i], TRUE)]

\* summary_get_origin_access_identity_list: the ids of the identities.
origin_access_identity_ids(origin_access_identities) ==
    [i \in 1..Len(Iter(origin_access_identities)) |-> Iter(origin_access_identities)[i].Id]

\* ------------------------------------- get_distribution_id_from_domain_name

UpperCase == <<"A", "B", "C", "D", "E", "F", "G", "H", "I", "J", "K", "L", "M",
               "N", "O", "P", "Q", "R", "S", "T", "U", "V", "W", "X", "Y", "Z">>

LowerCase == <<"a", "b", "c", "d", "e", "f", "g", "h", "i", "j", "k", "l", "m",
               "n", "o", "p", "q", "r", "s", "t", "u", "v", "w", "x", "y", "z">>

LowerChar(c) ==
    IF \E i \in DOMAIN UpperCase : UpperCase[i] = c
    THEN LowerCase[CHOOSE i \in DOMAIN UpperCase : UpperCase[i] = c]
    ELSE c

\* str.lower()
Lower(str) == [i \in DOMAIN str |-> LowerChar(str[i])]

\* Whether the inner loop over the aliases of dist finds domain_name.
AliasMatches(dist, name) ==
    /\ "Items" \in DOMAIN dist.Aliases
    /\ \E i \in DOMAIN dist.Aliases.Items : Lower(dist.Aliases.Items[i]) = Lower(name)

\* The loop of lines 410-415: the break leaves only the inner loop, so the
\* id of the last matching record is kept; "" when none matches.
RECURSIVE FindDistributionId(_, _, _, _)
FindDistributionId(dists, name, i, distribution_id) ==
    IF i > Len(dists) THEN distribution_id
    ELSE FindDistributionId(dists, name, i + 1,
            IF AliasMatches(dists[i], name) THEN dists[i].Id ELSE distribution_id)

\* distributions += list_streaming_distributions(False): a list is extended
\* by a list, and by the keys of the empty dict; a dict has no +=.
InPlaceAddFails(distributions, streaming) == distributions.type /= "list"

InPlaceAdd(distributions, streaming) == PyList(distributions.val \o Iter(streaming))

\* ------------------------------------------------------------------ state

VARIABLES
    op,             \* the method of CloudFrontServiceManager the invocation runs
    domain_name,    \* the argument of get_distribution_id_from_domain_name
    pc,             \* "fetch": blocked in func of paginated_response; "done"; "failed"
    phase,          \* the category whose listing is being fetched
    args,           \* paginated_response: args
    results,        \* paginated_response: results
    distributions,  \* summary_get_distribution_list, lookup: distributions
    idx,            \* summary_get_distribution_list: position of dist in distributions
    entries,        \* summary_get_distribution_list: distribution_list[list_name]
    summary_dict,   \* summary: summary_dict
    ret,            \* what the method returned to its caller
    output,         \* what the module printed on exit
    served,         \* history: the responses served to the current listing
    provided,       \* history: per listed category, the items of all its pages
    nfetch,         \* history: the number of func calls issued so far
    xrefs,          \* history: what each call of the cross-referencer returned
    raised,         \* history: whether a func call has raised
    flags,          \* main: the option flags the caller set to true
    params,         \* main: the identifying parameters the caller supplied
    distribution_id, \* main: distribution_id
    aliases,        \* main: aliases
    facts,          \* main: facts
    mpos,           \* main: the call main is blocked in; "none" outside main
    got,            \* history: per call of main, what the call returned
    alias_listing,  \* history: the listing get_aliases_from_distribution_id read
    state,          \* ec2_lc: the parameter state
    config_name,    \* ec2_lc: the parameter name
    image_id,       \* ec2_lc: the parameter image_id
    volumes,        \* ec2_lc: the parameter volumes
    bdm,            \* create_launch_config: bdm
    launch_config,  \* create_launch_config: launch_config
    launch_configs, \* create_launch_config, delete_launch_config: launch_configs
    changed,        \* create_launch_config: changed
    store,          \* the provider: the launch configurations, by name
    store0,         \* history: the launch configurations when ec2_lc started
    calls,          \* history: the mutating calls issued to the provider
    described,      \* history: whether the first describe call has returned
    list_to_key,    \* keyed_list_helper: list_to_key
    keyed_list,     \* keyed_list_helper: keyed_list
    kpos            \* keyed_list_helper: the items of list_to_key already visited

vars == <<op, domain_name, pc, phase, args, results, distributions, idx, entries,
          summary_dict, ret, output, served, provided, nfetch, xrefs, raised,
          flags, params, distribution_id, aliases, facts, mpos, got, alias_listing,
          state, config_name, image_id, volumes, bdm, launch_config, launch_configs,
          changed, store, store0, calls, described,
          list_to_key, keyed_list, kpos>>

lcVars == <<state, config_name, image_id, volumes, bdm, launch_config, launch_configs,
            changed, store, store0, calls, described>>

\* The variables of cloudfront_facts that ec2_lc leaves alone.
cfVars == <<op, domain_name, phase, args, results, distributions, idx, entries,
            summary_dict, ret, served, provided, nfetch, xrefs, raised,
            flags, params, distribution_id, aliases, facts, mpos, got, alias_listing>>

\* ec2_lc is not running.
NoLc ==
    /\ state = ""
    /\ config_name = ""
    /\ image_id = ""
    /\ volumes = <<>>
    /\ bdm = EmptyDict
    /\ launch_config = EmptyDict
    /\ launch_configs = <<>>
    /\ changed = FALSE
    /\ store = EmptyDict
    /\ store0 = EmptyDict
    /\ calls = <<>>
    /\ described = FALSE

keyerVars == <<list_to_key, keyed_list, kpos>>

mainVars == <<flags, params, distribution_id, aliases, facts, mpos, got, alias_listing>>

ListOps ==
    {"list_distributions", "list_streaming_distributions",
     "list_origin_access_identities", "list_invalidations"}

\* The category a method lists first.
FirstPhase(o) ==
    CASE o = "list_distributions" -> "distributions"
      [] o = "list_streaming_distributions" -> "streaming_distributions"
      [] o = "list_origin_access_identities" -> "origin_access_identities"
      [] o = "list_invalidations" -> "invalidations"
      [] o = "get_list_of_invalidation_ids_from_distribution_id" -> "invalidations"
      [] o = "get_aliases_from_distribution_id" -> "distributions"
      [] o = "summary" -> "distributions"
      [] o = "get_distribution_id_from_domain_name" -> "distributions"

Running == [failed |-> FALSE, exited |-> FALSE, msg |-> "", facts |-> PyNone]

\* module.exit_json(msg="Retrieved cloudfront facts.", ansible_facts=result)
ExitJson(value) ==
    [failed |-> FALSE, exited |-> TRUE, msg |-> "Retrieved cloudfront facts.", facts |-> value]

\* fail_json that also hands out what paginated_response had accumulated.
FailJsonPartial(msg) ==
    [failed |-> TRUE, exited |-> TRUE, msg |-> msg,
     facts |-> PyDict([results |-> results, summary |-> summary_dict])]

\* module.fail_json(msg=...): the message and nothing of the facts.
FailJson(msg) == [failed |-> TRUE, exited |-> TRUE, msg |-> msg, facts |-> PyNone]

\* The items of all the pages of a listing, in the order served.
RECURSIVE ConcatItems(_, _)
ConcatItems(responses, result_key) ==
    IF responses = <<>> THEN <<>>
    ELSE LET list == Head(responses)[result_key]
         IN  (IF "Items" \in DOMAIN list THEN list["Items"] ELSE <<>>)
                 \o ConcatItems(Tail(responses), result_key)

\* The identifying parameters the caller may supply; None when not supplied.
ParamNames ==
    {"distribution_id", "invalidation_id", "origin_access_identity_id",
     "domain_name_alias", "web_acl_id"}

NoParams == [k \in ParamNames |-> PyNone]

\* The invocation of method o, blocked in the first func call.
InitCall(o, name) ==
    /\ op = o
    /\ domain_name = name
    /\ pc = "fetch"
    /\ phase = FirstPhase(o)
    /\ args = EmptyDict
    /\ results = EmptyDict
    /\ distributions = PyNone
    /\ idx = 0
    /\ entries = <<>>
    /\ summary_dict = EmptyDict
    /\ ret = PyNone
    /\ output = Running
    /\ served = <<>>
    /\ provided = EmptyDict
    /\ nfetch = 1
    /\ xrefs = <<>>
    /\ raised = FALSE
    /\ flags = {}
    /\ params = NoParams
    /\ distribution_id = PyNone
    /\ aliases = <<>>
    /\ facts = EmptyDict
    /\ mpos = "none"
    /\ got = EmptyDict
    /\ alias_listing = PyNone
    /\ NoLc
    /\ list_to_key = <<>>
    /\ keyed_list = EmptyDict
    /\ kpos = 0

\* The locals that the code between two func calls may change.
Cur ==
    [pc |-> pc, phase |-> phase, distributions |-> distributions, idx |-> idx,
     entries |-> entries, summary_dict |-> summary_dict, ret |-> ret, output |-> output,
     xrefs |-> xrefs, op |-> op, domain_name |-> domain_name,
     distribution_id |-> distribution_id, aliases |-> aliases, facts |-> facts,
     mpos |-> mpos, got |-> got, alias_listing |-> alias_listing]

\* return value: the method hands the value to its caller.
Return(c, value) == [c EXCEPT !.pc = "done", !.ret = value]

\* fail_json(msg): the module exits with the message.
Fail(c, msg) == [c EXCEPT !.pc = "failed", !.output = FailJson(msg)]

\* The next paginated listing starts: its first func call is issued.
Call(c, cat) == [c EXCEPT !.pc = "fetch", !.phase = cat]

\* summary and summary_get_*_list, from the return of one listing to the
\* next func call: lv is what the list_* method returned.
SummaryAfter(c, lv) ==
    CASE phase = "distributions" ->
           IF Iter(lv) = <<>>
           THEN Call([c EXCEPT !.summary_dict =
                          Update(summary_dict, "distributions" :> <<>>)],
                     "streaming_distributions")
           ELSE Call([c EXCEPT !.distributions = lv, !.idx = 1, !.entries = <<>>],
                     "invalidations")
      [] phase = "invalidations" ->
           LET ids  == get_list_of_invalidation_ids_from_distribution_id(lv)
               ents == Append(entries, distribution_entry(Iter(distributions)[idx], ids))
               x    == Append(xrefs, ids)
           IN  IF idx < Len(Iter(distributions))
               THEN Call([c EXCEPT !.idx = idx + 1, !.entries = ents, !.xrefs = x],
                         "invalidations")
               ELSE Call([c EXCEPT !.idx = 0, !.entries = <<>>, !.distributions = PyNone,
                                   !.xrefs = x,
                                   !.summary_dict =
                                       Update(summary_dict, "distributions" :> ents)],
                         "streaming_distributions")
      [] phase = "streaming_distributions" ->
           Call([c EXCEPT !.summary_dict =
                     Update(summary_dict, "streaming_distributions" :> streaming_entries(lv))],
                "origin_access_identities")
      [] phase = "origin_access_identities" ->
           LET sd == Update(summary_dict,
                            "origin_access_identities" :> origin_access_identity_ids(lv))
           IN  Return([c EXCEPT !.summary_dict = sd], PyDict(sd))

\* get_distribution_id_from_domain_name, from the return of one listing on.
LookupAfter(c, lv) ==
    CASE phase = "distributions" ->
           Call([c EXCEPT !.distributions = lv], "streaming_distributions")
      [] phase = "streaming_distributions" ->
           IF InPlaceAddFails(distributions, lv)
           THEN Fail(c, "Error getting distribution id from domain name - ")
           ELSE Return([c EXCEPT !.distributions = InPlaceAdd(distributions, lv)],
                       PyStr(FindDistributionId(InPlaceAdd(distributions, lv).val,
                                                domain_name, 1, <<>>)))

\* ------------------------------------------------------------------- main

\* The option flags of argument_spec (lines 477-490).
FlagNames ==
    {"all_lists", "distribution", "distribution_config", "origin_access_identity",
     "origin_access_identity_config", "invalidation", "streaming_distribution",
     "streaming_distribution_config", "list_origin_access_identities",
     "list_distributions", "list_distributions_by_web_acl_id", "list_invalidations",
     "list_streaming_distributions", "summary"}

\* The identifying parameters of argument_spec (lines 473-476): web_acl_id is
\* not among them.
ArgumentSpecParams ==
    {"distribution_id", "invalidation_id", "origin_access_identity_id", "domain_name_alias"}

\* AnsibleModule refuses a parameter that argument_spec does not declare.
UnsupportedParameters == \E k \in ParamNames \ ArgumentSpecParams : params[k] /= PyNone

\* module.params.get(k): None for a key that is not in module.params.
ModuleParam(k) == IF k \in ArgumentSpecParams THEN params[k] ELSE PyNone

invalidation_id == ModuleParam("invalidation_id")

origin_access_identity_id == ModuleParam("origin_access_identity_id")

web_acl_id == ModuleParam("web_acl_id")

domain_name_alias == ModuleParam("domain_name_alias")

Flag(f) == f \in flags

require_distribution_id ==
    \/ Flag("distribution") \/ Flag("distribution_config") \/ Flag("invalidation")
    \/ Flag("streaming_distribution") \/ Flag("streaming_distribution_config")
    \/ Flag("list_invalidations")

\* summary after line 528: all_lists is not among the options tested.
summary ==
    \/ Flag("summary")
    \/ ~(\/ Flag("distribution") \/ Flag("distribution_config")
         \/ Flag("origin_access_identity") \/ Flag("origin_access_identity_config")
         \/ Flag("invalidation") \/ Flag("streaming_distribution")
         \/ Flag("streaming_distribution_config") \/ Flag("list_origin_access_identities")
         \/ Flag("list_distributions_by_web_acl_id") \/ Flag("list_invalidations")
         \/ Flag("list_streaming_distributions") \/ Flag("list_distributions"))

\* ValidationError without the test of invalidation_id.
ValidationErrorNoInvalidationId ==
    IF /\ require_distribution_id
       /\ ModuleParam("distribution_id") = PyNone
       /\ domain_name_alias = PyNone
    THEN "Error distribution_id or domain_name_alias have not been specified."
    ELSE IF /\ (Flag("origin_access_identity") \/ Flag("origin_access_identity_config"))
            /\ origin_access_identity_id = PyNone
    THEN "Error origin_access_identity_id has not been specified."
    ELSE IF Flag("list_distributions_by_web_acl_id") /\ web_acl_id = PyNone
    THEN "Error web_acl_id has not been specified."
    ELSE None

\* The validations (lines 534-541): the message of the first fail_json that
\* is called, None when none is.
ValidationError ==
    IF /\ require_distribution_id
       /\ ModuleParam("distribution_id") = PyNone
       /\ domain_name_alias = PyNone
    THEN "Error distribution_id or domain_name_alias have not been specified."
    ELSE IF Flag("invalidation") /\ invalidation_id = PyNone
    THEN "Error invalidation_id has not been specified."
    ELSE IF /\ (Flag("origin_access_identity") \/ Flag("origin_access_identity_config"))
            /\ origin_access_identity_id = PyNone
    THEN "Error origin_access_identity_id has not been specified."
    ELSE IF Flag("list_distributions_by_web_acl_id") /\ web_acl_id = PyNone
    THEN "Error web_acl_id has not been specified."
    ELSE None

\* The literal keys main writes into facts, as Python strs.
kInvalidations == <<"i", "n", "v", "a", "l", "i", "d", "a", "t", "i", "o", "n", "s">>

kDistributions == <<"d", "i", "s", "t", "r", "i", "b", "u", "t", "i", "o", "n", "s">>

kStreamingDistributions ==
    <<"s", "t", "r", "e", "a", "m", "i", "n", "g", "_">> \o kDistributions

kOriginAccessIdentities ==
    <<"o", "r", "i", "g", "i", "n", "_", "a", "c", "c", "e", "s", "s", "_",
      "i", "d", "e", "n", "t", "i", "t", "i", "e", "s">>

kDistributionsByWebAclId ==
    kDistributions \o <<"_", "b", "y", "_", "w", "e", "b", "_", "a", "c", "l", "_", "i", "d">>

kSummary == <<"s", "u", "m", "m", "a", "r", "y">>

\* An uncaught exception: the process ends with a traceback.
Traceback(exception) ==
    [failed |-> TRUE, exited |-> TRUE, msg |-> exception, facts |-> PyNone]

Crash(c, exception) == [c EXCEPT !.pc = "crashed", !.output = Traceback(exception)]

\* The except clause of the method whose func call raised: fail_json, but in
\* get_distribution_config the argument of fail_json reads
\* traceback.format_exec, which raises AttributeError out of the handler.
Raised(c, cat) ==
    IF cat = "distribution_config" THEN Crash(c, "AttributeError")
    ELSE Fail(c, ListError(cat))

\* The elements of a sequence.
Range(seq) == {seq[i] : i \in DOMAIN seq}

\* {key: {} for key in keys}
EmptyDicts(keys) == [k \in keys |-> PyDict(EmptyDict)]

\* set_facts_for_distribution_id_and_alias that updates the entry of the id
\* and leaves those of the aliases alone.
set_facts_for_distribution_id_only(details, fcts, id, als) ==
    IF id \notin DOMAIN fcts THEN [exception |-> "KeyError", facts |-> fcts]
    ELSE IF details.type /= "dict" THEN [exception |-> "ValueError", facts |-> fcts]
    ELSE [exception |-> None,
          facts |-> [k \in DOMAIN fcts |->
                        IF k = id THEN PyDict(Update(fcts[k].val, details.val))
                        ELSE fcts[k]]]

\* set_facts_for_distribution_id_and_alias: facts[key].update(details) for the
\* id and for every alias; a key that facts does not hold raises KeyError,
\* and a dict cannot be updated from a list of records.
set_facts_for_distribution_id_and_alias(details, fcts, id, als) ==
    IF \E k \in {id} \cup Range(als) : k \notin DOMAIN fcts
    THEN [exception |-> "KeyError", facts |-> fcts]
    ELSE IF details.type /= "dict" THEN [exception |-> "ValueError", facts |-> fcts]
    ELSE [exception |-> None,
          facts |-> [k \in DOMAIN fcts |->
                        IF k \in {id} \cup Range(als)
                        THEN PyDict(Update(fcts[k].val, details.val))
                        ELSE fcts[k]]]

\* facts = set_facts_for_distribution_id_and_alias(details, facts, ...)
SetFacts(c, details) ==
    LET r == set_facts_for_distribution_id_and_alias(details, c.facts,
                                                     c.distribution_id.val, c.aliases)
    IN  IF r.exception /= None THEN Crash(c, r.exception) ELSE [c EXCEPT !.facts = r.facts]

\* facts[key].update(details)
UpdateFact(c, key, details) ==
    IF key \notin DOMAIN c.facts THEN Crash(c, "KeyError")
    ELSE [c EXCEPT !.facts = Update(c.facts,
                                    key :> PyDict(Update(c.facts[key].val, details.val)))]

\* The calls of the service manager that main makes, in the order of the
\* code (lines 545-606).
MainSteps ==
    <<"lookup", "aliases",
      "distribution", "distribution_config", "origin_access_identity",
      "origin_access_identity_config", "invalidation", "streaming_distribution",
      "streaming_distribution_config", "list_invalidations_details",
      "list_origin_access_identities", "list_distributions",
      "list_streaming_distributions", "list_distributions_by_web_acl_id",
      "list_invalidations", "summary">>

StepIndex(step) == CHOOSE i \in DOMAIN MainSteps : MainSteps[i] = step

\* The condition under which main makes the call.
StepEnabled(c, step) ==
    CASE step = "lookup" -> require_distribution_id /\ c.distribution_id = PyNone
      [] step = "aliases" -> Truthy(c.distribution_id)
      [] step \in GetCategories -> Flag(step)
      [] step = "list_invalidations_details" -> Flag("list_invalidations")
      [] step \in {"list_origin_access_identities", "list_distributions",
                   "list_streaming_distributions"} -> Flag("all_lists") \/ Flag(step)
      [] step \in {"list_distributions_by_web_acl_id", "list_invalidations"} -> Flag(step)
      [] step = "summary" -> summary

\* The method a call runs and the category it fetches first.
StepMethod(step) ==
    CASE step = "lookup" ->
           [op |-> "get_distribution_id_from_domain_name", phase |-> "distributions"]
      [] step = "aliases" ->
           [op |-> "get_aliases_from_distribution_id", phase |-> "distributions"]
      [] step = "distribution" -> [op |-> "get_distribution", phase |-> step]
      [] step = "distribution_config" -> [op |-> "get_distribution_config", phase |-> step]
      [] step = "origin_access_identity" ->
           [op |-> "get_origin_access_identity", phase |-> step]
      [] step = "origin_access_identity_config" ->
           [op |-> "get_origin_access_identity_config", phase |-> step]
      [] step = "invalidation" -> [op |-> "get_invalidation", phase |-> step]
      [] step = "streaming_distribution" ->
           [op |-> "get_streaming_distribution", phase |-> step]
      [] step = "streaming_distribution_config" ->
           [op |-> "get_streaming_distribution_config", phase |-> step]
      [] step \in {"list_invalidations_details", "list_invalidations"} ->
           [op |-> "list_invalidations", phase |-> "invalidations"]
      [] step = "list_origin_access_identities" ->
           [op |-> step, phase |-> "origin_access_identities"]
      [] step = "list_distributions" -> [op |-> step, phase |-> "distributions"]
      [] step = "list_streaming_distributions" ->
           [op |-> step, phase |-> "streaming_distributions"]
      [] step = "list_distributions_by_web_acl_id" ->
           [op |-> step, phase |-> "distributions_by_web_acl_id"]
      [] step = "summary" -> [op |-> "summary", phase |-> "distributions"]

\* The code of main that runs just before the call: facts is set up before
\* the aliases are read (lines 551 and 558).
BeforeStep(c, step) ==
    CASE step = "lookup" -> [c EXCEPT !.domain_name = domain_name_alias.val]
      [] step = "aliases" ->
           [c EXCEPT !.facts = IF ~Flag("list_invalidations")
                               THEN EmptyDicts({c.distribution_id.val})
                               ELSE EmptyDicts({kInvalidations})]
      [] OTHER -> c

\* The code of main that runs in place of a call it does not make: the last
\* two branches of lines 550-565.
SkipStep(c, step) ==
    IF step /= "aliases" THEN c
    ELSE IF Truthy(origin_access_identity_id)
    THEN [c EXCEPT !.facts = EmptyDicts({origin_access_identity_id.val})]
    ELSE IF Truthy(web_acl_id) THEN [c EXCEPT !.facts = EmptyDicts({web_acl_id.val})]
    ELSE c

\* main issues the call: the method blocks in its first func call.
StartCall(c, step) ==
    [BeforeStep(c, step) EXCEPT !.pc = "fetch", !.mpos = step,
                                !.op = StepMethod(step).op,
                                !.phase = StepMethod(step).phase]

\* The code of main that runs when the call has returned value.
StoreStep(c, step, value) ==
    CASE step = "lookup" ->
           IF ~Truthy(value)
           THEN Fail(c, "Error unable to source a distribution id from domain_name_alias")
           ELSE [c EXCEPT !.distribution_id = value]
      [] step = "aliases" ->
           IF ~Flag("list_invalidations")
           THEN [c EXCEPT !.aliases = value.val,
                          !.facts = Update(Update(c.facts, EmptyDicts(Range(value.val))),
                                           IF Truthy(invalidation_id)
                                           THEN EmptyDicts({invalidation_id.val})
                                           ELSE EmptyDict)]
           ELSE [c EXCEPT !.aliases = value.val,
                          !.facts = Update(c.facts,
                                           kInvalidations :>
                                               PyDict(Update(c.facts[kInvalidations].val,
                                                             EmptyDicts(Range(value.val)))))]
      [] step \in {"distribution", "distribution_config", "streaming_distribution",
                   "streaming_distribution_config", "list_invalidations_details"} ->
           SetFacts(c, value)
      [] step \in {"origin_access_identity", "origin_access_identity_config"} ->
           UpdateFact(c, origin_access_identity_id.val, value)
      [] step = "invalidation" ->
           IF UpdateFact(c, invalidation_id.val, value).pc = "crashed"
           THEN UpdateFact(c, invalidation_id.val, value)
           ELSE SetFacts(UpdateFact(c, invalidation_id.val, value), value)
      [] step = "list_origin_access_identities" ->
           [c EXCEPT !.facts = Update(c.facts, kOriginAccessIdentities :> value)]
      [] step = "list_distributions" ->
           [c EXCEPT !.facts = Update(c.facts, kDistributions :> value)]
      [] step = "list_streaming_distributions" ->
           [c EXCEPT !.facts = Update(c.facts, kStreamingDistributions :> value)]
      [] step = "list_distributions_by_web_acl_id" ->
           [c EXCEPT !.facts = Update(c.facts, kDistributionsByWebAclId :> value)]
      [] step = "list_invalidations" ->
           [c EXCEPT !.facts = Update(c.facts, kInvalidations :> value)]
      [] step = "summary" ->
           [c EXCEPT !.facts = Update(c.facts, kSummary :> value)]

\* Lines 608-610: result holds the facts under 'cloudfront' and is published.
Publish(c) ==
    [c EXCEPT !.pc = "exited", !.mpos = "exit",
              !.output = ExitJson(PyDict([cloudfront |-> c.facts, changed |-> FALSE]))]

\* main from the end of call number i to its next call or to its exit.
RECURSIVE MainAdvance(_, _)
MainAdvance(c, i) ==
    IF c.pc \in {"failed", "crashed"} THEN c
    ELSE IF i = Len(MainSteps) THEN Publish(c)
    ELSE IF StepEnabled(c, MainSteps[i + 1]) THEN StartCall(c, MainSteps[i + 1])
    ELSE MainAdvance(SkipStep(c, MainSteps[i + 1]), i + 1)

\* The method returned r.ret to main.
MainResume(r) ==
    MainAdvance(StoreStep([r EXCEPT !.got = Update(r.got, mpos :> r.ret)], mpos, r.ret),
                StepIndex(mpos))

\* The aliases get_aliases_from_distribution_id collects (lines 424-428):
\* those of the first record with the id that has 'Items'.
RECURSIVE AliasesFrom(_, _, _)
AliasesFrom(dists, id, i) ==
    IF i > Len(dists) THEN <<>>
    ELSE IF dists[i].Id = id /\ "Items" \in DOMAIN dists[i].Aliases
    THEN dists[i].Aliases.Items
    ELSE AliasesFrom(dists, id, i + 1)

get_aliases_from_distribution_id(dists, id) == PyList(AliasesFrom(Iter(dists), id, 1))

\* Whether the listing is called with keyed=True: main calls list_distributions
\* and list_streaming_distributions with the default.
Keyed == mpos \in {"list_distributions", "list_streaming_distributions"}

\* What the method whose paginated_response ended with results returns (for
\* the methods that go on after the listing, the listing they read).
MethodReturn(cat, res) ==
    CASE cat \in GetCategories -> PyDict(res)
      [] cat = "distributions_by_web_acl_id" -> list_distributions_by_web_acl_id(res)
      [] cat = "distributions" /\ Keyed -> list_distributions(res, TRUE)
      [] cat = "streaming_distributions" /\ Keyed -> list_streaming_distributions(res, TRUE)
      [] OTHER -> ListReturn(cat, res)

\* The code of the method that runs once its listing has returned lv.
MethodAfter(c, lv) ==
    CASE op \in ListOps -> Return(c, lv)
      [] op \in {"get_distribution", "get_distribution_config", "get_origin_access_identity",
                 "get_origin_access_identity_config", "get_invalidation",
                 "get_streaming_distribution", "get_streaming_distribution_config",
                 "list_distributions_by_web_acl_id"} -> Return(c, lv)
      [] op = "get_aliases_from_distribution_id" ->
           Return([c EXCEPT !.alias_listing = lv],
                  get_aliases_from_distribution_id(lv, distribution_id.val))
      [] op = "get_list_of_invalidation_ids_from_distribution_id" ->
           Return([c EXCEPT !.xrefs =
                       Append(xrefs, get_list_of_invalidation_ids_from_distribution_id(lv))],
                  get_list_of_invalidation_ids_from_distribution_id(lv))
      [] op = "summary" -> SummaryAfter(c, lv)
      [] op = "get_distribution_id_from_domain_name" -> LookupAfter(c, lv)

\* The code that runs once a listing has returned lv: the rest of the
\* method and, when main called it and it returned, the code of main.
After(c, lv) ==
    IF mpos /= "none" /\ MethodAfter(c, lv).pc = "done"
    THEN MainResume(MethodAfter(c, lv))
    ELSE MethodAfter(c, lv)

\* The state after the code between two func calls has run to n, srv being
\* the responses of the listing that returned.
Apply(n, srv) ==
    /\ pc' = n.pc
    /\ phase' = n.phase
    /\ distributions' = n.distributions
    /\ idx' = n.idx
    /\ entries' = n.entries
    /\ summary_dict' = n.summary_dict
    /\ ret' = n.ret
    /\ output' = n.output
    /\ xrefs' = n.xrefs
    /\ op' = n.op
    /\ domain_name' = n.domain_name
    /\ distribution_id' = n.distribution_id
    /\ aliases' = n.aliases
    /\ facts' = n.facts
    /\ mpos' = n.mpos
    /\ got' = n.got
    /\ alias_listing' = n.alias_listing
    /\ args' = EmptyDict
    /\ results' = EmptyDict
    /\ provided' = IF mpos /= "none" \/ phase = "invalidations" THEN provided
                   ELSE Update(provided, phase :> ConcatItems(srv, ResultKey(phase)))
    /\ served' = IF n.pc = "fetch" THEN <<>> ELSE srv
    /\ nfetch' = IF n.pc = "fetch" THEN nfetch + 1 ELSE nfetch

\* ---------------------------------------------------------------- actions

\* func returns a page: the rest of the loop body of paginated_response
\* and, when the loop ends, the caller's code up to the next func call.
FetchReturns ==
    /\ pc = "fetch"
    /\ \E items \in PageItems(phase), tok \in Tokens :
          /\ Len(served) + 1 = MaxPages => tok = None
          /\ mpos /= "none" => tok = None
          /\ LET response == Response(phase, items, tok)
                 step     == PageStep(results, response, ResultKey(phase))
             IN  IF step.loop
                 THEN /\ args' = step.args
                      /\ results' = step.results
                      /\ served' = Append(served, response)
                      /\ nfetch' = nfetch + 1
                      /\ UNCHANGED <<op, domain_name, pc, phase, distributions, idx,
                                     entries, summary_dict, ret, output, provided, xrefs>>
                      /\ UNCHANGED <<distribution_id, aliases, facts, mpos, got,
                                     alias_listing>>
                 ELSE Apply(After(Cur, MethodReturn(phase, step.results)),
                            Append(served, response))
    /\ UNCHANGED <<flags, params, raised>>
    /\ UNCHANGED lcVars
    /\ UNCHANGED keyerVars

\* func raises and the same call is issued again.
FetchRaisesRetry ==
    /\ pc = "fetch"
    /\ nfetch < MaxPages + 1
    /\ raised' = TRUE
    /\ nfetch' = nfetch + 1
    /\ UNCHANGED <<op, domain_name, pc, phase, args, results, distributions, idx, entries,
                   summary_dict, ret, output, served, provided, xrefs>>
    /\ UNCHANGED mainVars
    /\ UNCHANGED lcVars
    /\ UNCHANGED keyerVars

\* func raises: the except clause of the method calls fail_json, which ends
\* the process.
FetchRaises ==
    /\ pc = "fetch"
    /\ pc' = Raised(Cur, phase).pc
    /\ output' = Raised(Cur, phase).output
    /\ raised' = TRUE
    /\ UNCHANGED <<op, domain_name, phase, args, results, distributions, idx, entries,
                   summary_dict, ret, served, provided, nfetch, xrefs>>
    /\ UNCHANGED mainVars
    /\ UNCHANGED lcVars
    /\ UNCHANGED keyerVars

\* The names looked up.
DomainNames ==
    {<<"a", ".", "c">>, <<"A", ".", "C">>, <<"w", "W", ".", "b">>, <<"E", ".", "o">>,
     <<"z">>}

\* keyed_list_helper visits the next item of list_to_key.
KeyNext ==
    /\ pc = "keying"
    /\ kpos < Len(list_to_key)
    /\ keyed_list' = KeyItem(keyed_list, list_to_key[kpos + 1])
    /\ kpos' = kpos + 1
    /\ UNCHANGED <<op, domain_name, pc, phase, args, results, distributions, idx, entries,
                   summary_dict, ret, output, served, provided, nfetch, xrefs, raised,
                   list_to_key>>
    /\ UNCHANGED mainVars
    /\ UNCHANGED lcVars

\* keyed_list_helper returns keyed_list.
KeyReturn ==
    /\ pc = "keying"
    /\ kpos = Len(list_to_key)
    /\ pc' = "done"
    /\ ret' = PyDict(keyed_list)
    /\ UNCHANGED <<op, domain_name, phase, args, results, distributions, idx, entries,
                   summary_dict, output, served, provided, nfetch, xrefs, raised>>
    /\ UNCHANGED mainVars
    /\ UNCHANGED lcVars
    /\ UNCHANGED keyerVars

\* The 'Aliases' structures of the records handed to keyed_list_helper:
\* without 'Items', with no item, with aliases of their own, with an alias
\* that is the id of a record.
KeyerAliases ==
    {[Quantity |-> 0], [Quantity |-> 0, Items |-> <<>>],
     [Quantity |-> 1, Items |-> <<aCom>>],
     [Quantity |-> 2, Items |-> <<WwwB, eOrg>>],
     [Quantity |-> 1, Items |-> <<D1>>]}

KeyerRecords ==
    {[Id |-> id, Status |-> st, WebACLId |-> "", Aliases |-> al] :
        id \in {D1, D2, aCom}, st \in {"Deployed"}, al \in KeyerAliases}

KeyerInputs == UNION {[1..n -> KeyerRecords] : n \in 0..MaxRecords}

InitKeyer ==
    /\ op = "keyed_list_helper"
    /\ domain_name = <<>>
    /\ pc = "keying"
    /\ phase = "distributions"
    /\ args = EmptyDict
    /\ results = EmptyDict
    /\ distributions = PyNone
    /\ idx = 0
    /\ entries = <<>>
    /\ summary_dict = EmptyDict
    /\ ret = PyNone
    /\ output = Running
    /\ served = <<>>
    /\ provided = EmptyDict
    /\ nfetch = 0
    /\ xrefs = <<>>
    /\ raised = FALSE
    /\ flags = {}
    /\ params = NoParams
    /\ distribution_id = PyNone
    /\ aliases = <<>>
    /\ facts = EmptyDict
    /\ mpos = "none"
    /\ got = EmptyDict
    /\ alias_listing = PyNone
    /\ NoLc
    /\ list_to_key \in KeyerInputs
    /\ keyed_list = EmptyDict
    /\ kpos = 0

\* The methods Spec invokes: the four listings and the cross-referencer.
SpecOps == ListOps \cup {"get_list_of_invalidation_ids_from_distribution_id"}

\* main starts: AnsibleModule checks the parameters, the validations run
\* and main goes on to its first call.
MainStart ==
    /\ pc = "start"
    /\ Apply(IF UnsupportedParameters
             THEN Fail(Cur, "Unsupported parameters for (cloudfront_facts) module: web_acl_id")
             ELSE IF ValidationError /= None THEN Fail(Cur, ValidationError)
             ELSE MainAdvance(Cur, 0),
             <<>>)
    /\ UNCHANGED <<flags, params, raised>>
    /\ UNCHANGED lcVars
    /\ UNCHANGED keyerVars

\* The sets of flags an invocation of main sets to true.
FlagSets == {fs \in SUBSET FlagNames : Cardinality(fs) <= MaxFlags}

\* The values a caller supplies for a parameter, None when it supplies none.
ParamValues ==
    [distribution_id           |-> {PyNone, PyStr(D1)},
     invalidation_id           |-> {PyNone, PyStr(I1)},
     origin_access_identity_id |-> {PyNone, PyStr(O1)},
     domain_name_alias         |-> {PyNone, PyStr(<<"A", ".", "C">>)},
     web_acl_id                |-> {PyNone, PyStr(<<"W", "1">>)}]

ParamSets == {ps \in [ParamNames -> UNION {ParamValues[k] : k \in ParamNames}] :
                 \A k \in ParamNames : ps[k] \in ParamValues[k]}

\* main is entered: boto3 is present and the connection is established.
InitMain ==
    /\ op = "main"
    /\ domain_name = <<>>
    /\ pc = "start"
    /\ phase = "distributions"
    /\ args = EmptyDict
    /\ results = EmptyDict
    /\ distributions = PyNone
    /\ idx = 0
    /\ entries = <<>>
    /\ summary_dict = EmptyDict
    /\ ret = PyNone
    /\ output = Running
    /\ served = <<>>
    /\ provided = EmptyDict
    /\ nfetch = 0
    /\ xrefs = <<>>
    /\ raised = FALSE
    /\ flags \in FlagSets
    /\ params \in ParamSets
    /\ distribution_id = params["distribution_id"]
    /\ aliases = <<>>
    /\ facts = EmptyDict
    /\ mpos = "start"
    /\ got = EmptyDict
    /\ alias_listing = PyNone
    /\ NoLc
    /\ list_to_key = <<>>
    /\ keyed_list = EmptyDict
    /\ kpos = 0

Init == \E o \in SpecOps : InitCall(o, <<>>)

InitSummary == InitCall("summary", <<>>)

InitLookup == \E name \in DomainNames : InitCall("get_distribution_id_from_domain_name", name)

Next ==
    \/ FetchReturns
    \/ FetchRaises

Spec == Init /\ [][Next]_vars

SpecSummary == InitSummary /\ [][Next]_vars

SpecLookup == InitLookup /\ [][Next]_vars

NextMain ==
    \/ MainStart
    \/ FetchReturns
    \/ FetchRaises

SpecMain == InitMain /\ [][NextMain]_vars

NextKeyer ==
    \/ KeyNext
    \/ KeyReturn

SpecKeyer == InitKeyer /\ [][NextKeyer]_vars

\* ------------------------------------------------------------------ ec2_lc

LcNames == {"lc1", "lc2"}

ImageIds == {"ami-1", "ami-2"}

\* The volumes a caller may list: a new io1 volume, an ephemeral one, one
\* without device_name, one without size, one of size 0, an io1 snapshot
\* without iops, a new io1 volume without iops, a new volume without type.
VolumePool ==
    {[device_name |-> "/dev/sda1", volume_size |-> 100, device_type |-> "io1",
      iops |-> 3000, delete_on_termination |-> TRUE],
     [device_name |-> "/dev/sdb", ephemeral |-> "ephemeral0"],
     [volume_size |-> 10],
     [device_name |-> "/dev/sdc"],
     [device_name |-> "/dev/sdd", volume_size |-> 0],
     [device_name |-> "/dev/sde", snapshot |-> "snap-1", device_type |-> "io1"],
     [device_name |-> "/dev/sdf", volume_size |-> 10, device_type |-> "io1"],
     [device_name |-> "/dev/sdg", volume_size |-> 8]}

VolumeLists == UNION {[1..n -> VolumePool] : n \in 0..MaxVolumes}

\* The message of the first fail_json that create_block_device calls for the
\* volume (lines 187-195), None when it calls none.
BlockDeviceError(volume) ==
    IF /\ "snapshot" \notin DOMAIN volume
       /\ "ephemeral" \notin DOMAIN volume
       /\ "volume_size" \notin DOMAIN volume
    THEN "Size must be specified when creating a new volume or modifying the root volume"
    ELSE IF /\ "snapshot" \in DOMAIN volume
            /\ "device_type" \in DOMAIN volume
            /\ volume["device_type"] = "io1"
            /\ "iops" \notin DOMAIN volume
    THEN "io1 volumes must have an iops value set"
    ELSE IF "ephemeral" \in DOMAIN volume /\ "snapshot" \in DOMAIN volume
    THEN "Cannot set both ephemeral and snapshot"
    ELSE None

\* Whether return_object['Ebs'] is created (lines 208-210): the list names
\* 'ips', not 'iops'.
HasEbs(volume) ==
    \E key \in {"snapshot", "volume_size", "volume_type", "delete_on_termination",
                "ips", "encrypted"} : key \in DOMAIN volume

\* return_object['Ebs'] (lines 212-228).
EbsOf(volume) ==
    LET take(src, dst) == IF src \in DOMAIN volume THEN dst :> volume[src] ELSE EmptyDict
    IN  take("snapshot", "SnapshotId") @@ take("volume_size", "VolumeSize")
            @@ take("volume_type", "VolumeType")
            @@ take("delete_on_termination", "DeleteOnTermination")
            @@ take("iops", "Iops") @@ take("encrypted", "Encrypted")

\* Whether a statement of lines 212-228 writes into an 'Ebs' that line 210
\* has not created.
EbsMissing(volume) == ~HasEbs(volume) /\ "iops" \in DOMAIN volume

\* The return_object of create_block_device (lines 197-230); 'no_device' is
\* never copied, since the test of line 205 compares a str with the volume.
create_block_device(volume) ==
    (IF "ephemeral" \in DOMAIN volume THEN "VirtualName" :> volume["ephemeral"]
     ELSE EmptyDict)
    @@ (IF "device_name" \in DOMAIN volume THEN "DeviceName" :> volume["device_name"]
        ELSE EmptyDict)
    @@ (IF HasEbs(volume) THEN "Ebs" :> EbsOf(volume) ELSE EmptyDict)

\* The loop over the volumes (lines 266-273) from volume i on: it ends in a
\* fail_json, in an exception or with bdm.
RECURSIVE BlockDevices(_, _, _)
BlockDevices(vols, i, b) ==
    IF i > Len(vols) THEN [error |-> None, exception |-> None, bdm |-> b]
    ELSE IF "device_name" \notin DOMAIN vols[i]
    THEN [error |-> "Device name must be set for volume", exception |-> None, bdm |-> b]
    ELSE IF "volume_size" \in DOMAIN vols[i] /\ ~(vols[i]["volume_size"] > 0)
    THEN BlockDevices(vols, i + 1, b)
    ELSE IF BlockDeviceError(vols[i]) /= None
    THEN [error |-> BlockDeviceError(vols[i]), exception |-> None, bdm |-> b]
    ELSE IF EbsMissing(vols[i])
    THEN [error |-> None, exception |-> "KeyError", bdm |-> b]
    ELSE BlockDevices(vols, i + 1, Update(b, create_block_device(vols[i])))

\* launch_config (lines 279-326) for the parameters modelled.
LaunchConfig(b) ==
    [LaunchConfigurationName |-> config_name, ImageId |-> image_id,
     BlockDeviceMappings |-> <<b>>]

\* describe_launch_configurations(LaunchConfigurationNames=[name])
\*     .get('LaunchConfigurations')
Describe(st, nm) == IF nm \in DOMAIN st THEN <<st[nm]>> ELSE <<>>

\* The test of line 328 taken as always true.
NeedsCreateAlways(lcs) == TRUE

\* len(launch_configs) == 0 (line 328)
NeedsCreate(lcs) == Len(lcs) = 0

\* The test of line 377 taken as always false.
NeedsDeleteNever(lcs) == FALSE

\* launch_configs and len(launch_configs) > 0 (line 377)
NeedsDelete(lcs) == lcs /= <<>> /\ Len(lcs) > 0

\* module.exit_json(changed=changed, **camel_dict_to_snake_dict(return_object))
LcExitJson(chg, lcs) ==
    [failed |-> FALSE, exited |-> TRUE, msg |-> "",
     facts |-> [changed |-> chg, name |-> lcs[1].LaunchConfigurationName,
                image_id |-> lcs[1].ImageId]]

\* module.exit_json(changed=...) of delete_launch_config
LcExitChanged(chg) ==
    [failed |-> FALSE, exited |-> TRUE, msg |-> "", facts |-> [changed |-> chg]]

\* main and the code up to the first call of the provider: for state
\* present, the loop over the volumes.
LcStart ==
    /\ pc = "start"
    /\ op = "ec2_lc"
    /\ LET r == BlockDevices(volumes, 1, EmptyDict)
       IN  IF state = "present" /\ r.error /= None
           THEN /\ pc' = "failed"
                /\ output' = FailJson(r.error)
                /\ UNCHANGED <<bdm, launch_config>>
           ELSE IF state = "present" /\ r.exception /= None
           THEN /\ pc' = "crashed"
                /\ output' = Traceback(r.exception)
                /\ UNCHANGED <<bdm, launch_config>>
           ELSE /\ pc' = "describe"
                /\ bdm' = IF state = "present" THEN r.bdm ELSE bdm
                /\ UNCHANGED <<output, launch_config>>
    /\ UNCHANGED <<state, config_name, image_id, volumes, launch_configs, changed,
                   store, store0, calls, described>>
    /\ UNCHANGED cfVars
    /\ UNCHANGED keyerVars

\* describe_launch_configurations returns (lines 275 and 376) and the code
\* runs up to the next call of the provider or to exit_json.
DescribeReturns ==
    /\ pc = "describe"
    /\ launch_configs' = Describe(store, config_name)
    /\ described' = TRUE
    /\ IF state = "present"
       THEN /\ launch_config' = LaunchConfig(bdm)
            /\ IF NeedsCreate(launch_configs')
               THEN /\ pc' = "create"
                    /\ calls' = Append(calls, [api |-> "create_launch_configuration",
                                               name |-> config_name])
                    /\ UNCHANGED output
               ELSE /\ pc' = "exited"
                    /\ output' = LcExitJson(changed, launch_configs')
                    /\ UNCHANGED calls
       ELSE /\ UNCHANGED launch_config
            /\ IF NeedsDelete(launch_configs')
               THEN /\ pc' = "delete"
                    /\ calls' = Append(calls,
                                       [api |-> "delete_launch_configuration",
                                        name |-> launch_configs'[1].LaunchConfigurationName])
                    /\ UNCHANGED output
               ELSE /\ pc' = "exited"
                    /\ output' = LcExitChanged(FALSE)
                    /\ UNCHANGED calls
    /\ UNCHANGED <<state, config_name, image_id, volumes, bdm, changed, store, store0>>
    /\ UNCHANGED cfVars
    /\ UNCHANGED keyerVars

\* describe_launch_configurations raises: nothing catches the exception.
DescribeRaises ==
    /\ pc = "describe"
    /\ pc' = "crashed"
    /\ output' = Traceback("ClientError")
    /\ UNCHANGED lcVars
    /\ UNCHANGED cfVars
    /\ UNCHANGED keyerVars

\* create_launch_configuration returns: the provider holds the configuration
\* and describe_launch_configurations is called again (line 331).
CreateReturns ==
    /\ pc = "create"
    /\ store' = Update(store, config_name :> launch_config)
    /\ pc' = "describe_again"
    /\ UNCHANGED <<state, config_name, image_id, volumes, bdm, launch_config,
                   launch_configs, changed, store0, calls, described>>
    /\ UNCHANGED output
    /\ UNCHANGED cfVars
    /\ UNCHANGED keyerVars

\* create_launch_configuration raises: a ClientError ends in fail_json
\* (line 334), any other exception is not caught.
CreateRaises ==
    /\ pc = "create"
    /\ \E exception \in {"ClientError", "ParamValidationError"} :
          IF exception = "ClientError"
          THEN pc' = "failed" /\ output' = FailJson(exception)
          ELSE pc' = "crashed" /\ output' = Traceback(exception)
    /\ UNCHANGED lcVars
    /\ UNCHANGED cfVars
    /\ UNCHANGED keyerVars

\* The second describe_launch_configurations returns: changed = True and the
\* code runs to exit_json (lines 331-371).
DescribeAgainReturns ==
    /\ pc = "describe_again"
    /\ launch_configs' = Describe(store, config_name)
    /\ changed' = TRUE
    /\ pc' = "exited"
    /\ output' = LcExitJson(TRUE, launch_configs')
    /\ UNCHANGED <<state, config_name, image_id, volumes, bdm, launch_config,
                   store, store0, calls, described>>
    /\ UNCHANGED cfVars
    /\ UNCHANGED keyerVars

\* The second describe_launch_configurations raises a ClientError inside the
\* try of line 329: fail_json.
DescribeAgainRaises ==
    /\ pc = "describe_again"
    /\ pc' = "failed"
    /\ output' = FailJson("ClientError")
    /\ UNCHANGED lcVars
    /\ UNCHANGED cfVars
    /\ UNCHANGED keyerVars

\* delete_launch_configuration returns: the provider has dropped the
\* configuration named in the call and exit_json(changed=True) follows.
DeleteReturns ==
    /\ pc = "delete"
    /\ store' = [n \in (DOMAIN store) \ {calls[Len(calls)].name} |-> store[n]]
    /\ changed' = TRUE
    /\ pc' = "exited"
    /\ output' = LcExitChanged(TRUE)
    /\ UNCHANGED <<state, config_name, image_id, volumes, bdm, launch_config,
                   launch_configs, store0, calls, described>>
    /\ UNCHANGED cfVars
    /\ UNCHANGED keyerVars

\* delete_launch_configuration raises: nothing catches the exception.
DeleteRaises ==
    /\ pc = "delete"
    /\ pc' = "crashed"
    /\ output' = Traceback("ClientError")
    /\ UNCHANGED lcVars
    /\ UNCHANGED cfVars
    /\ UNCHANGED keyerVars

\* The launch configurations the provider may hold when ec2_lc starts.
StoredConfig(nm, img) ==
    [LaunchConfigurationName |-> nm, ImageId |-> img, BlockDeviceMappings |-> <<>>]

Stores ==
    UNION {{[nm \in names |-> StoredConfig(nm, img[nm])] : img \in [names -> ImageIds]} :
              names \in SUBSET LcNames}

\* ec2_lc is entered: the parameters are parsed and both clients are created.
InitLc ==
    /\ op = "ec2_lc"
    /\ domain_name = <<>>
    /\ pc = "start"
    /\ phase = "distributions"
    /\ args = EmptyDict
    /\ results = EmptyDict
    /\ distributions = PyNone
    /\ idx = 0
    /\ entries = <<>>
    /\ summary_dict = EmptyDict
    /\ ret = PyNone
    /\ output = Running
    /\ served = <<>>
    /\ provided = EmptyDict
    /\ nfetch = 0
    /\ xrefs = <<>>
    /\ raised = FALSE
    /\ flags = {}
    /\ params = NoParams
    /\ distribution_id = PyNone
    /\ aliases = <<>>
    /\ facts = EmptyDict
    /\ mpos = "none"
    /\ got = EmptyDict
    /\ alias_listing = PyNone
    /\ state \in {"present", "absent"}
    /\ config_name \in LcNames
    /\ image_id \in ImageIds
    /\ volumes \in VolumeLists
    /\ bdm = EmptyDict
    /\ launch_config = EmptyDict
    /\ launch_configs = <<>>
    /\ changed = FALSE
    /\ store \in Stores
    /\ store0 = store
    /\ calls = <<>>
    /\ described = FALSE
    /\ list_to_key = <<>>
    /\ keyed_list = EmptyDict
    /\ kpos = 0

NextLc ==
    \/ LcStart
    \/ DescribeReturns
    \/ DescribeRaises
    \/ CreateReturns
    \/ CreateRaises
    \/ DescribeAgainReturns
    \/ DescribeAgainRaises
    \/ DeleteReturns
    \/ DeleteRaises

SpecLc == InitLc /\ [][NextLc]_vars

\* ----------------------------------------------------------------- claims

\* The token and the list structure of a served response.
TokenOf(response) == Get(response, "NextToken")

QuantityOf(response) == response[ResultKey(phase)]["Quantity"]

ItemsOf(response) ==
    IF "Items" \in DOMAIN response[ResultKey(phase)]
    THEN response[ResultKey(phase)]["Items"] ELSE <<>>

\* C1: a listing returns the concatenation of the items of all the pages
\* served to it, in page order.
C1_ListingConcatenatesPages ==
    (op \in ListOps /\ pc = "done") =>
        Iter(ret) = ConcatItems(served, ResultKey(phase))

\* C2 as claimed: when the first page reports quantity 0, no second fetch is
\* issued, whatever its token, and the listing returns an empty collection.
C2_ZeroQuantityNoSecondFetch ==
    (op \in ListOps /\ served /= <<>> /\ QuantityOf(served[1]) = 0) =>
        /\ nfetch = 1
        /\ pc = "done"
        /\ Iter(ret) = <<>>

\* C2 as amended: when the first page reports quantity 0 and carries no
\* continuation token (None), no second fetch is issued and the listing
\* returns an empty collection.
C2_ZeroQuantityNoTokenNoSecondFetch ==
    (op \in ListOps /\ served /= <<>> /\ QuantityOf(served[1]) = 0
        /\ TokenOf(served[1]) = None) =>
        /\ nfetch = 1
        /\ pc = "done"
        /\ ret = PyDict(EmptyDict)

C2_Witness ==
    /\ op \in ListOps
    /\ pc = "done"
    /\ Len(served) = 1
    /\ QuantityOf(served[1]) = 0
    /\ TokenOf(served[1]) = None

\* C3: when a fetch after the first one raises, the listing ends in
\* fail_json, returns nothing to its caller and the output holds no item of
\* the pages fetched before.
C3_RaiseAfterFirstPageFailsWithoutItems ==
    (op \in ListOps /\ served /= <<>> /\ pc = "failed") =>
        /\ output = [failed |-> TRUE, exited |-> TRUE, msg |-> ListError(phase),
                     facts |-> PyNone]
        /\ ret = PyNone

C3_Witness ==
    /\ op \in ListOps
    /\ pc = "failed"
    /\ Len(served) >= 1
    /\ ItemsOf(served[1]) /= <<>>
    /\ nfetch = Len(served) + 1

\* C4 as claimed: the paginator stops at the first page whose token is None
\* or the empty string: when page i is such a page, i fetches are issued.
C4_StopsAtNoneOrEmptyToken ==
    op \in ListOps =>
        \A i \in 1..Len(served) : TokenOf(served[i]) \in {None, ""} => nfetch = i

\* C4 as amended: the paginator stops at the first page whose token is None
\* (an absent 'NextToken'), and only there: when page i carries None, i
\* fetches were issued and the listing has returned; when page i carries any
\* other token, the empty string included, fetch i + 1 is issued.
C4_StopsAtFirstNoneToken ==
    op \in ListOps =>
        \A i \in 1..Len(served) :
            /\ TokenOf(served[i]) = None => (nfetch = i /\ i = Len(served) /\ pc = "done")
            /\ TokenOf(served[i]) /= None => nfetch >= i + 1

C4_Witness ==
    /\ op \in ListOps
    /\ pc = "done"
    /\ Len(served) = 2
    /\ TokenOf(served[1]) = ""
    /\ TokenOf(served[2]) = None
    /\ nfetch = 2

\* The ids of a sequence of records.
IdsOf(records) == [i \in 1..Len(records) |-> records[i].Id]

\* The ids of the entries of a category list of the summary.
SummaryIds(cat) ==
    IF cat = "origin_access_identities" THEN summary_dict[cat]
    ELSE IdsOf(summary_dict[cat])

\* C5: when a fetch of any category fails while the summary is built, the
\* invocation ends with fail_json of that listing, nothing of the summary is
\* output or returned, and no further fetch is issued.
C5_SummaryFailsFast ==
    /\ [](op = "summary" /\ pc = "failed" =>
            /\ output = [failed |-> TRUE, exited |-> TRUE, msg |-> ListError(phase),
                         facts |-> PyNone]
            /\ ret = PyNone)
    /\ [][op = "summary" /\ pc = "failed" => pc' = "failed" /\ nfetch' = nfetch]_vars

C5_Witness ==
    /\ op = "summary"
    /\ pc = "failed"
    /\ phase = "origin_access_identities"
    /\ "distributions" \in DOMAIN summary_dict
    /\ summary_dict["distributions"] /= <<>>
    /\ summary_dict["streaming_distributions"] /= <<>>

\* C6: each category list of the summary holds one entry per record the
\* provider served for the category, in the order served across the pages.
C6_SummaryListsEveryRecordInFetchOrder ==
    (op = "summary" /\ pc = "done") =>
        \A cat \in {"distributions", "streaming_distributions", "origin_access_identities"} :
            SummaryIds(cat) = IdsOf(provided[cat])

\* The aliases a record declares.
DeclaredAliases(item) ==
    IF "Items" \in DOMAIN item.Aliases
    THEN {item.Aliases.Items[i] : i \in DOMAIN item.Aliases.Items} ELSE {}

\* The keys a record declares: its id and its aliases.
DeclaredKeys(item) == {item.Id} \cup DeclaredAliases(item)

\* No key is declared twice in the collection: not by two records, and not
\* twice by one record.
PairwiseDistinctKeys(list) ==
    /\ \A i, j \in DOMAIN list : i /= j => DeclaredKeys(list[i]) \cap DeclaredKeys(list[j]) = {}
    /\ \A i \in DOMAIN list :
          Cardinality(DeclaredKeys(list[i])) = 1 + Len(AliasList(list[i]))

LookupListed ==
    IF pc = "done" THEN distributions.val
    ELSE Iter(distributions)
            \o Iter(list_streaming_distributions(
                        paginated_response(served, "StreamingDistributionList"), FALSE))

\* C10: whenever a record of the distribution listing or of the streaming
\* listing has an alias equal to the name up to letter case, the lookup
\* returns the id of such a record.
C10_LookupFindsAliasIgnoringCase ==
    (/\ op = "get_distribution_id_from_domain_name"
     /\ phase = "streaming_distributions"
     /\ pc \in {"done", "failed"}
     /\ served /= <<>>
     /\ TokenOf(served[Len(served)]) = None) =>
        LET matching == {i \in DOMAIN LookupListed : AliasMatches(LookupListed[i], domain_name)}
        IN  matching /= {} =>
                /\ pc = "done"
                /\ \E i \in matching : ret = PyStr(LookupListed[i].Id)

\* C11: the cross-referencer returns a list, never None, that holds the ids
\* of the invalidations the provider served for the distribution, in the
\* order served across the pages; the empty list when none was served.
C11_InvalidationIdsInFetchOrder ==
    (op = "get_list_of_invalidation_ids_from_distribution_id" /\ pc = "done") =>
        /\ ret.type = "list"
        /\ ret.val = IdsOf(ConcatItems(served, "InvalidationList"))

\* C12 as claimed: every entry of 'distributions' holds under 'Invalidations'
\* the list the cross-referencer returned for it, the empty list included;
\* the cross-referencer is called once per distribution and never for a
\* streaming distribution, whose entries have no 'Invalidations'.
C12_EveryEntryCarriesInvalidations ==
    (op = "summary" /\ pc = "done") =>
        /\ Len(xrefs) = Len(summary_dict["distributions"])
        /\ \A i \in DOMAIN summary_dict["distributions"] :
              /\ "Invalidations" \in DOMAIN summary_dict["distributions"][i]
              /\ summary_dict["distributions"][i]["Invalidations"] = xrefs[i].val
        /\ \A i \in DOMAIN summary_dict["streaming_distributions"] :
              "Invalidations" \notin DOMAIN summary_dict["streaming_distributions"][i]

\* C12 as amended: an entry of 'distributions' holds under 'Invalidations'
\* the list the cross-referencer returned for it when that list is not
\* empty, and has no 'Invalidations' when it is empty; the cross-referencer
\* is called once per distribution and never for a streaming distribution,
\* whose entries have no 'Invalidations'.
C12_NonEmptyInvalidationsAttached ==
    (op = "summary" /\ pc = "done") =>
        /\ Len(xrefs) = Len(summary_dict["distributions"])
        /\ \A i \in DOMAIN summary_dict["distributions"] :
              IF xrefs[i].val /= <<>>
              THEN /\ "Invalidations" \in DOMAIN summary_dict["distributions"][i]
                   /\ summary_dict["distributions"][i]["Invalidations"] = xrefs[i].val
              ELSE "Invalidations" \notin DOMAIN summary_dict["distributions"][i]
        /\ \A i \in DOMAIN summary_dict["streaming_distributions"] :
              "Invalidations" \notin DOMAIN summary_dict["streaming_distributions"][i]

C12_Witness ==
    /\ op = "summary"
    /\ pc = "done"
    /\ Len(summary_dict["distributions"]) = 2
    /\ xrefs[1].val /= <<>>
    /\ xrefs[2].val = <<>>
    /\ summary_dict["streaming_distributions"] /= <<>>

\* The invocation is one of main.
InMain == mpos /= "none"

\* A required identifying parameter is missing from what the caller supplied.
MissingRequired ==
    \/ /\ \E f \in {"distribution", "distribution_config", "invalidation",
                    "streaming_distribution", "streaming_distribution_config",
                    "list_invalidations"} : f \in flags
       /\ params["distribution_id"] = PyNone
       /\ params["domain_name_alias"] = PyNone
    \/ "invalidation" \in flags /\ params["invalidation_id"] = PyNone
    \/ /\ \E f \in {"origin_access_identity", "origin_access_identity_config"} : f \in flags
       /\ params["origin_access_identity_id"] = PyNone
    \/ "list_distributions_by_web_acl_id" \in flags /\ params["web_acl_id"] = PyNone

\* The messages with which main turns down its parameters.
ValidationMessages ==
    {"Error distribution_id or domain_name_alias have not been specified.",
     "Error invalidation_id has not been specified.",
     "Error origin_access_identity_id has not been specified.",
     "Error web_acl_id has not been specified.",
     "Unsupported parameters for (cloudfront_facts) module: web_acl_id"}

\* C13: when a required identifying parameter is missing, the first step of
\* main ends it in fail_json with a validation message, and no list or get
\* call has been issued to the provider.
C13_MissingParameterFailsBeforeAnyCall ==
    /\ []((InMain /\ MissingRequired /\ pc /= "start") =>
            /\ pc = "failed"
            /\ nfetch = 0
            /\ output.failed /\ output.exited
            /\ output.msg \in ValidationMessages
            /\ output.facts = PyNone)
    /\ [][(InMain /\ MissingRequired /\ pc = "start") =>
            (pc' = "failed" /\ nfetch' = 0)]_vars

C13_Witness ==
    /\ InMain
    /\ pc = "failed"
    /\ flags = {"invalidation"}
    /\ params["distribution_id"] /= PyNone
    /\ params["invalidation_id"] = PyNone
    /\ nfetch = 0
    /\ output.msg = "Error invalidation_id has not been specified."

\* The facts main published under 'cloudfront'.
Published == output.facts.val.cloudfront

\* C14: the published facts hold 'summary' exactly when the summary flag is
\* true or no option flag at all, all_lists included, is true.
C14_SummaryIffFlagOrNoOption ==
    (InMain /\ pc = "exited") =>
        (kSummary \in DOMAIN Published <=> ("summary" \in flags \/ flags = {}))

\* C15: with list_invalidations true and a distribution id given or
\* resolved from the alias, and no call of the provider raising, main ends by
\* publishing facts that hold under 'invalidations' the invalidations listed.
C15_ListInvalidationsPublished ==
    (/\ InMain
     /\ "list_invalidations" \in flags
     /\ Truthy(distribution_id)
     /\ ~MissingRequired /\ ~UnsupportedParameters
     /\ ~raised
     /\ pc \in {"exited", "failed", "crashed"}) =>
        /\ pc = "exited"
        /\ kInvalidations \in DOMAIN Published
        /\ Published[kInvalidations] = got["list_invalidations"]

\* C16: with list_distributions_by_web_acl_id true and web_acl_id supplied,
\* and nothing else missing, the validation passes (main goes on to a call
\* of the provider) and the facts it publishes hold
\* 'distributions_by_web_acl_id' with the distributions listed.
C16_WebAclListingPublished ==
    (/\ InMain
     /\ "list_distributions_by_web_acl_id" \in flags
     /\ params["web_acl_id"] /= PyNone
     /\ ~MissingRequired
     /\ pc /= "start") =>
        /\ nfetch >= 1
        /\ pc = "exited" =>
              /\ kDistributionsByWebAclId \in DOMAIN Published
              /\ Published[kDistributionsByWebAclId] = got["list_distributions_by_web_acl_id"]

\* The aliases the distribution id declares in the listing that
\* get_aliases_from_distribution_id read.
ListedAliases ==
    UNION {IF Iter(alias_listing)[i].Id = distribution_id.val
           THEN (IF "Items" \in DOMAIN Iter(alias_listing)[i].Aliases
                 THEN {Iter(alias_listing)[i].Aliases.Items[j] :
                          j \in DOMAIN Iter(alias_listing)[i].Aliases.Items}
                 ELSE {})
           ELSE {} : i \in DOMAIN Iter(alias_listing)}

\* The fact is a dict that holds every key of the details with its value.
HoldsDetails(fact, details) ==
    /\ fact.type = "dict"
    /\ \A key \in DOMAIN details.val :
          key \in DOMAIN fact.val /\ fact.val[key] = details.val[key]

C18_NoFetchAfterRaise ==
    /\ [](raised => (pc \in {"failed", "crashed"} /\ output.failed /\ output.exited))
    /\ [][raised' => nfetch' = nfetch]_vars

C18_Witness ==
    /\ op = "summary"
    /\ raised
    /\ pc = "failed"
    /\ phase = "invalidations"
    /\ Len(served) = 1
    /\ nfetch >= 3

\* C19: with state present, the only mutating call is one
\* create_launch_configuration of the given name; once describe has returned
\* it is issued exactly when the provider held no configuration of that name;
\* exit_json reports changed exactly when it was issued; and a configuration
\* that existed is left as it was, whatever the parameters requested.
C19_PresentCreatesIffAbsent ==
    (op = "ec2_lc" /\ state = "present") =>
        /\ Len(calls) <= 1
        /\ \A i \in DOMAIN calls :
              calls[i] = [api |-> "create_launch_configuration", name |-> config_name]
        /\ ~described => calls = <<>>
        /\ described => (calls /= <<>> <=> config_name \notin DOMAIN store0)
        /\ pc = "exited" => output.facts.changed = (calls /= <<>>)
        /\ \A nm \in DOMAIN store0 : nm \in DOMAIN store /\ store[nm] = store0[nm]

C19_Witness ==
    /\ op = "ec2_lc"
    /\ state = "present"
    /\ pc = "exited"
    /\ config_name \in DOMAIN store0
    /\ store0[config_name].ImageId /= image_id
    /\ output.facts.changed = FALSE
    /\ output.facts.image_id = store0[config_name].ImageId

\* C20: with state absent, the only mutating call is one
\* delete_launch_configuration of the given name; once describe has returned
\* it is issued exactly when the provider held a configuration of that name;
\* exit_json reports changed exactly when it was issued; and no other
\* configuration is touched.
C20_AbsentDeletesIffPresent ==
    (op = "ec2_lc" /\ state = "absent") =>
        /\ Len(calls) <= 1
        /\ \A i \in DOMAIN calls :
              calls[i] = [api |-> "delete_launch_configuration", name |-> config_name]
        /\ ~described => calls = <<>>
        /\ described => (calls /= <<>> <=> config_name \in DOMAIN store0)
        /\ pc = "exited" => output.facts.changed = (calls /= <<>>)
        /\ \A nm \in (DOMAIN store0) \ {config_name} :
              nm \in DOMAIN store /\ store[nm] = store0[nm]
        /\ \A nm \in DOMAIN store : nm \in DOMAIN store0 /\ store[nm] = store0[nm]
        /\ (pc = "exited" /\ calls /= <<>>) => config_name \notin DOMAIN store

C20_Witness ==
    /\ op = "ec2_lc"
    /\ state = "absent"
    /\ pc = "exited"
    /\ DOMAIN store0 = LcNames
    /\ DOMAIN store = LcNames \ {config_name}
    /\ output.facts.changed = TRUE

\* The volumes of the list that ask for a mapping: volume_size unspecified
\* or at least 1.
MappedVolumes(vols) ==
    SelectSeq(vols, LAMBDA v : "volume_size" \notin DOMAIN v \/ v["volume_size"] >= 1)

\* C21: once create_launch_configuration has been called, the request's
\* BlockDeviceMappings holds one mapping per volume whose volume_size is
\* unspecified or at least 1, in the order of the list, each with that
\* volume's own device name and settings, and nothing for the other volumes.
C21_OneMappingPerVolume ==
    (op = "ec2_lc" /\ state = "present" /\ calls /= <<>>) =>
        LET kept == MappedVolumes(volumes)
            mappings == launch_config.BlockDeviceMappings
        IN  /\ Len(mappings) = Len(kept)
            /\ \A i \in DOMAIN kept : mappings[i] = create_block_device(kept[i])

\* A new volume: neither snapshot nor ephemeral is given.
NewVolume(v) == "snapshot" \notin DOMAIN v /\ "ephemeral" \notin DOMAIN v

\* Size and type are specified and, for type io1, iops as well.
FullySpecified(v) ==
    /\ "volume_size" \in DOMAIN v
    /\ "device_type" \in DOMAIN v
    /\ v["device_type"] = "io1" => "iops" \in DOMAIN v

\* C22: with state present, when the list holds a new volume that lacks its
\* size, its type or, for type io1, its iops, the invocation gets no further
\* than the loop over the volumes and ends in fail_json.
C22_NewVolumeMustBeSpecified ==
    (/\ op = "ec2_lc"
     /\ state = "present"
     /\ \E i \in DOMAIN volumes : NewVolume(volumes[i]) /\ ~FullySpecified(volumes[i])) =>
        pc \in {"start", "failed"}

====
